---- MODULE Spec2Model ----
(***************************************************************************)
(* Model of the relay in src/server.js: the account directory (users),     *)
(* the offline queues (messageQueue), the per-connection closure variable  *)
(* currentAccountId, the transport state of every connection handle, and   *)
(* one action per event handler.  Node runs each handler to completion,    *)
(* so every handler is one atomic action.                                  *)
(***************************************************************************)
EXTENDS Integers, Sequences, FiniteSets, TLC

(* ------------------------------ bounds --------------------------------- *)
\* events (handler runs and clock advances) of a run
MaxEvents == 6
\* advances of the wall clock
MaxTicks == 2
\* handler runs of a run in which the clock and the sweep never stop
MaxLiveEvents == 4
\* packets created in such a run
MaxSends == 2
\* retention windows the clock of such a run goes through
MaxWindows == 2

(* ------------------------- values of the inputs ------------------------ *)
\* the connection handles that may be accepted
Conns == {1, 2}
Ids == {"alice", "bob"}
\* a field that is absent from the JSON object (undefined, hence falsy)
Missing == "<undefined>"
\* the initial value of currentAccountId (null, falsy)
Null == "<null>"
\* the empty string, the one string that is falsy
Empty == ""

\* !x, for the values a field or the closure variable can hold
Falsy(x) == x \in {Missing, Null, Empty}

maxAge == 7 * 24 * 60 * 60 * 1000
\* amounts by which Date.now() grows between two events: one millisecond, or
\* one millisecond short of the retention window
TickSteps == {1, maxAge - 1}

\* the register messages tried: two complete ones per id, which differ in key
\* and username (the second has no username, or an empty one), and one for
\* each required field that is absent or empty
RegisterMsgs ==
    {[type |-> "register", accountId |-> a, publicKey |-> "pkA", username |-> "ann"] :
        a \in Ids \cup {Missing, Empty}}
    \cup {[type |-> "register", accountId |-> "alice", publicKey |-> "pkB", username |-> Missing],
          [type |-> "register", accountId |-> "bob", publicKey |-> "pkB", username |-> Empty],
          [type |-> "register", accountId |-> "alice", publicKey |-> Missing, username |-> "ann"],
          [type |-> "register", accountId |-> "bob", publicKey |-> Empty, username |-> "ann"]}
\* the sendMessage messages tried: complete, or one required field absent or
\* empty
SendMsgs ==
    {[type |-> "sendMessage", to |-> t, from |-> "alice", encryptedMessage |-> "blob"] :
        t \in Ids \cup {Missing, Empty}}
    \cup {[type |-> "sendMessage", to |-> "bob", from |-> Missing, encryptedMessage |-> "blob"],
          [type |-> "sendMessage", to |-> "bob", from |-> "alice", encryptedMessage |-> Empty]}
GetKeyMsgs == [type : {"getPublicKey"}, accountId : Ids \cup {Missing}]
PingMsg == [type |-> "ping"]
UnknownMsg == [type |-> "typing"]
\* a JSON value without a type: an object that lacks the field, a number, a string
Typeless == [type |-> Missing]
UnknownMsgs == {UnknownMsg, Typeless}
\* a frame JSON.parse rejects
Malformed == [type |-> "<unparsable>"]
\* the JSON literal null: it parses, and reading its type throws
NullLiteral == [type |-> "<null literal>"]
BadFrames == {Malformed, NullLiteral}
NoMsg == [type |-> "<none>"]

(* ------------------------------- state --------------------------------- *)
VARIABLES
    users,             \* Map accountId -> account record
    messageQueue,      \* Map accountId -> sequence of packets
    readyState,        \* transport state of each connection handle
    listening,         \* server.listening: the HTTP server accepts TCP connections
    currentAccountId,  \* closure variable of each connection
    now,               \* Date.now()
    ticks,             \* clock advances so far
    nextId,            \* packets created so far
    events,            \* events so far
    last,              \* the handler that ran last, its input, the frames it wrote
    pre,               \* users, messageQueue, currentAccountId, readyState before it
    firstReg,          \* history: the first register message accepted for each id
    bound              \* history: accountId of the latest accepted register per connection

vars == <<users, messageQueue, readyState, listening, currentAccountId, now, ticks,
          nextId, events, last, pre, firstReg, bound>>

(* ------------------------------ helpers -------------------------------- *)
Has(map, k) == k \in DOMAIN map

\* Map.set
MapSet(map, k, v) == [x \in DOMAIN map \cup {k} |-> IF x = k THEN v ELSE map[x]]

\* Map.delete
MapDelete(map, k) == [x \in DOMAIN map \ {k} |-> map[x]]

Range(s) == {s[i] : i \in 1..Len(s)}

\* Set.add on an insertion-ordered Set
SetAdd(s, e) == IF e \in Range(s) THEN s ELSE Append(s, e)

\* Set.delete
SetDelete(s, e) == SelectSeq(s, LAMBDA x : x # e)

Frame(c, f) == [conn |-> c, frame |-> f]

\* what is recorded about the handler that has just run
Ran(op, c, m, frames) == [op |-> op, conn |-> c, msg |-> m, sent |-> frames]

Snapshot == [users |-> users, messageQueue |-> messageQueue,
             currentAccountId |-> currentAccountId, readyState |-> readyState]

\* a 'message' event is emitted on a handle from the connection event until
\* the close event, also after close() has been called on the handle
Receives(ws) == readyState[ws] \in {"OPEN", "CLOSING"}

(* ------------------------------- Init ---------------------------------- *)
Init ==
    /\ users = <<>>
    /\ messageQueue = <<>>
    /\ readyState = [c \in Conns |-> "NONE"]
    /\ listening = TRUE
    /\ currentAccountId = [c \in Conns |-> Null]
    /\ now = 0
    /\ ticks = 0
    /\ nextId = 0
    /\ events = 0
    /\ last = Ran("init", 0, NoMsg, <<>>)
    /\ pre = [users |-> <<>>, messageQueue |-> <<>>,
              currentAccountId |-> [c \in Conns |-> Null],
              readyState |-> [c \in Conns |-> "NONE"]]
    /\ firstReg = <<>>
    /\ bound = [c \in Conns |-> Null]

(* ------------------------- wss.on('connection') ------------------------ *)
Connect(ws) ==
    /\ readyState[ws] = "NONE"
    /\ readyState' = [readyState EXCEPT ![ws] = "OPEN"]
    /\ currentAccountId' = [currentAccountId EXCEPT ![ws] = Null]
    /\ last' = Ran("connection", ws, NoMsg, <<>>)
    /\ pre' = Snapshot
    /\ UNCHANGED <<users, messageQueue, now, ticks, nextId, firstReg, bound, listening>>


(* ---------------------------- handleRegister --------------------------- *)
\* a validation that forgets the publicKey
RegisterValidIdOnly(message) ==
    ~Falsy(message.accountId)

\* line 93: the message passes validation
RegisterValid(message) ==
    ~(Falsy(message.accountId) \/ Falsy(message.publicKey))

\* lines 102-107: the record stored for a new account
NewAccount(message) ==
    [publicKey |-> message.publicKey,
     username |-> IF Falsy(message.username) THEN "Anonymous" ELSE message.username,
     connections |-> <<>>,
     registeredAt |-> now]

\* a register that stores the record of every register, not only of the first
EnsureAccountOverwrite(message) ==
    MapSet(users, message.accountId,
           [NewAccount(message) EXCEPT !.connections =
               IF Has(users, message.accountId)
               THEN users[message.accountId].connections ELSE <<>>])

\* lines 101-108: the directory after the lookup-or-create
EnsureAccount(message) ==
    IF ~Has(users, message.accountId)
    THEN MapSet(users, message.accountId, NewAccount(message))
    ELSE users

\* lines 110-111: the connection joins the account's set
AttachConnection(directory, accountId, ws) ==
    [directory EXCEPT ![accountId].connections = SetAdd(@, ws)]

\* lines 122-126: the queued packets, written to ws in queue order
FlushFrames(ws, accountId) ==
    IF Has(messageQueue, accountId)
    THEN [i \in 1..Len(messageQueue[accountId]) |-> Frame(ws, messageQueue[accountId][i])]
    ELSE <<>>

\* a flush that clears every queue instead of deleting one key
FlushQueueAll(accountId) ==
    IF Has(messageQueue, accountId) THEN <<>> ELSE messageQueue

\* a flush that forgets messageQueue.delete
FlushQueueKeep(accountId) ==
    messageQueue

\* lines 122-128: the queue map after the flush
FlushQueue(accountId) ==
    IF Has(messageQueue, accountId) THEN MapDelete(messageQueue, accountId) ELSE messageQueue

\* the whole function: the directory, the queues and the frames it leaves
handleRegister(ws, message) ==
    IF ~RegisterValid(message)
    THEN [users |-> users, messageQueue |-> messageQueue,
          sent |-> <<Frame(ws, [type |-> "error",
                                message |-> "Missing accountId or publicKey"])>>]
    ELSE LET directory == AttachConnection(EnsureAccount(message), message.accountId, ws)
         IN [users |-> directory,
             messageQueue |-> FlushQueue(message.accountId),
             sent |-> <<Frame(ws, [type |-> "registered",
                                   accountId |-> message.accountId,
                                   onlineUsers |-> Cardinality(DOMAIN directory)])>>
                      \o FlushFrames(ws, message.accountId)]

\* line 46: the closure variable after the register case
BindAccount(ws, message) ==
    [currentAccountId EXCEPT ![ws] = message.accountId]

\* lines 44-47: case 'register'
Register(ws, message) ==
    /\ Receives(ws)
    /\ LET r == handleRegister(ws, message)
       IN /\ users' = r.users
          /\ messageQueue' = r.messageQueue
          /\ last' = Ran("register", ws, message, r.sent)
    /\ currentAccountId' = BindAccount(ws, message)
    /\ pre' = Snapshot
    /\ LET accepted == handleRegister(ws, message).sent[1].frame.type = "registered"
       IN /\ firstReg' = IF accepted /\ ~Has(firstReg, message.accountId)
                         THEN MapSet(firstReg, message.accountId, message)
                         ELSE firstReg
          /\ bound' = IF accepted
                      THEN [bound EXCEPT ![ws] = message.accountId]
                      ELSE bound
    /\ UNCHANGED <<readyState, listening, now, ticks, nextId>>

(* -------------------------- handleSendMessage -------------------------- *)
\* line 135
SendValid(message) ==
    ~(Falsy(message.to) \/ Falsy(message.encryptedMessage) \/ Falsy(message.from))

\* lines 145-151
messagePacket(message) ==
    [type |-> "newMessage",
     from |-> message.from,
     encryptedMessage |-> message.encryptedMessage,
     timestamp |-> now,
     id |-> nextId + 1]

\* a branch condition that asks for an open handle instead of a non-empty set
HasConnectionsOpen(to) ==
    Has(users, to) /\ \E c \in Range(users[to].connections) : readyState[c] = "OPEN"

\* line 153: the branch that fans out
HasConnections(to) ==
    Has(users, to) /\ Len(users[to].connections) > 0

\* a fan-out that stops at the first open handle
FanOutFirst(connections) ==
    LET open == SelectSeq(connections, LAMBDA conn : readyState[conn] = "OPEN")
    IN IF open = <<>> THEN <<>> ELSE <<Head(open)>>

\* lines 155-160: the handles the packet is written to
FanOut(connections) ==
    SelectSeq(connections, LAMBDA conn : readyState[conn] = "OPEN")

\* lines 171-174
Enqueue(to, packet) ==
    MapSet(messageQueue, to,
           Append(IF Has(messageQueue, to) THEN messageQueue[to] ELSE <<>>, packet))

SentFrame(ws, packet, status) ==
    Frame(ws, [type |-> "messageSent", messageId |-> packet.id, status |-> status])

handleSendMessage(ws, message) ==
    IF ~SendValid(message)
    THEN [messageQueue |-> messageQueue, created |-> 0,
          sent |-> <<Frame(ws, [type |-> "error",
                                message |-> "Invalid message structure"])>>]
    ELSE LET packet == messagePacket(message)
         IN IF HasConnections(message.to)
            THEN LET targets == FanOut(users[message.to].connections)
                     delivered == Len(targets) > 0
                 IN [messageQueue |-> messageQueue, created |-> 1,
                     sent |-> [i \in 1..Len(targets) |-> Frame(targets[i], packet)]
                              \o (IF delivered
                                  THEN <<SentFrame(ws, packet, "delivered")>>
                                  ELSE <<>>)]
            ELSE [messageQueue |-> Enqueue(message.to, packet), created |-> 1,
                  sent |-> <<SentFrame(ws, packet, "queued")>>]

\* lines 49-51: case 'sendMessage'
SendMessage(ws, message) ==
    /\ Receives(ws)
    /\ LET r == handleSendMessage(ws, message)
       IN /\ messageQueue' = r.messageQueue
          /\ nextId' = nextId + r.created
          /\ last' = Ran("sendMessage", ws, message, r.sent)
    /\ pre' = Snapshot
    /\ UNCHANGED <<users, readyState, currentAccountId, now, ticks, firstReg, bound, listening>>

(* -------------------------- handleGetPublicKey ------------------------- *)
\* a lookup that answers nothing when the id is unknown
handleGetPublicKeySilent(ws, message) ==
    IF Has(users, message.accountId)
    THEN <<Frame(ws, [type |-> "publicKey",
                      accountId |-> message.accountId,
                      publicKey |-> users[message.accountId].publicKey,
                      username |-> users[message.accountId].username])>>
    ELSE <<>>

\* lines 186-204
handleGetPublicKey(ws, message) ==
    IF Has(users, message.accountId)
    THEN <<Frame(ws, [type |-> "publicKey",
                      accountId |-> message.accountId,
                      publicKey |-> users[message.accountId].publicKey,
                      username |-> users[message.accountId].username])>>
    ELSE <<Frame(ws, [type |-> "error", message |-> "User not found"])>>

\* lines 53-55: case 'getPublicKey'
GetPublicKey(ws, message) ==
    /\ Receives(ws)
    /\ last' = Ran("getPublicKey", ws, message, handleGetPublicKey(ws, message))
    /\ pre' = Snapshot
    /\ UNCHANGED <<users, messageQueue, readyState, currentAccountId, now, ticks,
                   nextId, firstReg, bound, listening>>

(* ------------------- ping, unknown type, parse error ------------------- *)
\* lines 57-59
Ping(ws) ==
    /\ Receives(ws)
    /\ last' = Ran("ping", ws, PingMsg, <<Frame(ws, [type |-> "pong"])>>)
    /\ pre' = Snapshot
    /\ UNCHANGED <<users, messageQueue, readyState, currentAccountId, now, ticks,
                   nextId, firstReg, bound, listening>>

\* lines 61-62
UnknownType(ws, message) ==
    /\ Receives(ws)
    /\ last' = Ran("unknown", ws, message, <<>>)
    /\ pre' = Snapshot
    /\ UNCHANGED <<users, messageQueue, readyState, currentAccountId, now, ticks,
                   nextId, firstReg, bound, listening>>

\* a catch block that only logs
catchErrorSilent(ws) ==
    <<>>

\* lines 64-70: the catch block
catchError(ws) ==
    <<Frame(ws, [type |-> "error", message |-> "Invalid message format"])>>

\* lines 40-43 and 64-70: JSON.parse, or reading message.type, throws
ParseError(ws, data) ==
    /\ Receives(ws)
    /\ last' = Ran("parseError", ws, data, catchError(ws))
    /\ pre' = Snapshot
    /\ UNCHANGED <<users, messageQueue, readyState, currentAccountId, now, ticks,
                   nextId, firstReg, bound, listening>>

(* ----------------------------- ws.on('close') -------------------------- *)
\* the closing handshake of one handle starts: the transport stops being
\* open; the close event has not been emitted yet
TransportClose(ws) ==
    /\ readyState[ws] = "OPEN"
    /\ readyState' = [readyState EXCEPT ![ws] = "CLOSING"]
    /\ last' = Ran("transportClose", ws, NoMsg, <<>>)
    /\ pre' = Snapshot
    /\ UNCHANGED <<users, messageQueue, currentAccountId, now, ticks, nextId,
                   firstReg, bound, listening>>

\* a close handler that also drops the account once its set is empty
RemoveConnectionAndAccount(ws) ==
    IF ~Falsy(currentAccountId[ws]) /\ Has(users, currentAccountId[ws])
    THEN IF SetDelete(users[currentAccountId[ws]].connections, ws) = <<>>
         THEN MapDelete(users, currentAccountId[ws])
         ELSE [users EXCEPT ![currentAccountId[ws]].connections = SetDelete(@, ws)]
    ELSE users

\* lines 75-81: the directory after the close handler
RemoveConnection(ws) ==
    IF ~Falsy(currentAccountId[ws]) /\ Has(users, currentAccountId[ws])
    THEN [users EXCEPT ![currentAccountId[ws]].connections = SetDelete(@, ws)]
    ELSE users

\* lines 73-82
Close(ws) ==
    /\ readyState[ws] = "CLOSING"
    /\ readyState' = [readyState EXCEPT ![ws] = "CLOSED"]
    /\ users' = RemoveConnection(ws)
    /\ last' = Ran("close", ws, NoMsg, <<>>)
    /\ pre' = Snapshot
    /\ UNCHANGED <<messageQueue, currentAccountId, now, ticks, nextId, firstReg, bound, listening>>

(* -------------------------- process.on('SIGTERM') ---------------------- *)
\* lines 236-238: close() on every client; an open handle becomes CLOSING
ClosedAll ==
    [c \in Conns |-> IF readyState[c] = "OPEN" THEN "CLOSING" ELSE readyState[c]]

\* lines 234-243: the handles start closing and the server stops listening; a
\* TCP connection accepted before may still upgrade and become a handle
Sigterm ==
    /\ readyState' = ClosedAll
    /\ listening' = FALSE
    /\ last' = Ran("sigterm", 0, NoMsg, <<>>)
    /\ pre' = Snapshot
    /\ UNCHANGED <<users, messageQueue, currentAccountId, now, ticks, nextId,
                   firstReg, bound>>

(* ------------------------- setInterval cleanup ------------------------- *)
\* a filter with the operands of the subtraction swapped
FilteredSwapped(messages) ==
    SelectSeq(messages, LAMBDA msg : msg.timestamp - now < maxAge)

\* a filter that compares with <= instead of <
FilteredInclusive(messages) ==
    SelectSeq(messages, LAMBDA msg : now - msg.timestamp <= maxAge)

\* lines 212-214
Filtered(messages) ==
    SelectSeq(messages, LAMBDA msg : now - msg.timestamp < maxAge)

\* a sweep that filters and never stores the result
SweptDiscarded ==
    messageQueue

\* a sweep that stores the filtered array even when it is empty
SweptKeepingEmpty ==
    [accountId \in DOMAIN messageQueue |-> Filtered(messageQueue[accountId])]

\* lines 211-221
Swept ==
    LET kept == {accountId \in DOMAIN messageQueue :
                    Len(Filtered(messageQueue[accountId])) # 0}
    IN [accountId \in kept |-> Filtered(messageQueue[accountId])]

\* a sweep that also forgets the accounts that have no connection
CleanupPurgingAccounts ==
    /\ messageQueue' = Swept
    /\ users' = [id \in {a \in DOMAIN users : users[a].connections # <<>>} |-> users[id]]
    /\ last' = Ran("cleanup", 0, NoMsg, <<>>)
    /\ pre' = Snapshot
    /\ UNCHANGED <<readyState, currentAccountId, now, ticks, nextId, firstReg, bound, listening>>

\* lines 207-224
Cleanup ==
    /\ messageQueue' = Swept
    /\ last' = Ran("cleanup", 0, NoMsg, <<>>)
    /\ pre' = Snapshot
    /\ UNCHANGED <<users, readyState, currentAccountId, now, ticks, nextId,
                   firstReg, bound, listening>>

(* ------------------------------ Date.now() ----------------------------- *)
Tick ==
    /\ ticks < MaxTicks
    /\ \E d \in TickSteps : now' = now + d
    /\ ticks' = ticks + 1
    /\ last' = Ran("tick", 0, NoMsg, <<>>)
    /\ pre' = Snapshot
    /\ UNCHANGED <<users, messageQueue, readyState, currentAccountId, nextId,
                   firstReg, bound, listening>>

(* -------------------------------- Next --------------------------------- *)
\* every event counts against the length of the run
Counted == events < MaxEvents /\ events' = events + 1

Next ==
    \/ \E ws \in Conns : Counted /\ Connect(ws)
    \/ \E ws \in Conns : \E message \in RegisterMsgs : Counted /\ Register(ws, message)
    \/ \E ws \in Conns : \E message \in SendMsgs : Counted /\ SendMessage(ws, message)
    \/ \E ws \in Conns : \E message \in GetKeyMsgs : Counted /\ GetPublicKey(ws, message)
    \/ \E ws \in Conns : Counted /\ Ping(ws)
    \/ \E ws \in Conns : \E message \in UnknownMsgs : Counted /\ UnknownType(ws, message)
    \/ \E ws \in Conns : \E data \in BadFrames : Counted /\ ParseError(ws, data)
    \/ \E ws \in Conns : Counted /\ TransportClose(ws)
    \/ \E ws \in Conns : Counted /\ Close(ws)
    \/ Counted /\ Sigterm
    \/ Counted /\ Cleanup
    \/ Counted /\ Tick

Spec == Init /\ [][Next]_vars

(* ------------- the relay with its timer and its clock running ---------- *)
\* the clock is followed through MaxWindows retention windows
Horizon == MaxWindows * maxAge

\* Date.now() grows by the retention window
Elapse ==
    /\ now' = now + maxAge
    /\ last' = Ran("tick", 0, NoMsg, <<>>)
    /\ pre' = Snapshot
    /\ UNCHANGED <<users, messageQueue, readyState, currentAccountId, ticks, nextId,
                   firstReg, bound, listening, events>>

\* the clock advances until the end of the run
ClockRuns == now < Horizon /\ Elapse

\* line 224: the interval timer fires
TimerFires == Cleanup /\ UNCHANGED events

LiveCounted == events < MaxLiveEvents /\ events' = events + 1

\* a packet is created while a retention window of the run is still ahead
WindowAhead == now <= Horizon - maxAge

LiveNext ==
    \/ \E ws \in Conns : LiveCounted /\ Connect(ws)
    \/ \E ws \in Conns : \E message \in RegisterMsgs : LiveCounted /\ Register(ws, message)
    \/ \E ws \in Conns : \E message \in SendMsgs :
          LiveCounted /\ nextId < MaxSends /\ WindowAhead /\ SendMessage(ws, message)
    \/ \E ws \in Conns : LiveCounted /\ TransportClose(ws)
    \/ \E ws \in Conns : LiveCounted /\ Close(ws)
    \/ TimerFires
    \/ ClockRuns

\* setInterval keeps firing and time keeps passing
LiveSpec == Init /\ [][LiveNext]_vars /\ WF_vars(TimerFires) /\ WF_vars(ClockRuns)

(***************************************************************************)
(* The properties.  Each is stated on the state a handler leaves: last is  *)
(* the handler that ran, pre the directory and the queues it started from. *)
(***************************************************************************)
\* the frames of one type the last handler wrote, in the order written
FramesOfType(t) == SelectSeq(last.sent, LAMBDA f : f.frame.type = t)

\* how many newMessage frames the last handler wrote to connection c
NewMessagesTo(c) ==
    Len(SelectSeq(last.sent, LAMBDA f : f.frame.type = "newMessage" /\ f.conn = c))

QueueOf(map, id) == IF Has(map, id) THEN map[id] ELSE <<>>

\* a field is given when the message has it and it is not the empty string
Given(v) == v # Missing /\ v # ""

\* a message that gives every one of the fields
Complete(message, fields) == \A f \in fields : Given(message[f])

RegisterFields == {"accountId", "publicKey"}
SendFields == {"to", "from", "encryptedMessage"}

\* the last handler was a sendMessage with to, from and encryptedMessage
ValidSend == last.op = "sendMessage" /\ Complete(last.msg, SendFields)

\* the last handler was a register with accountId and publicKey
ValidRegister == last.op = "register" /\ Complete(last.msg, RegisterFields)

\* the open connections of an account when the last handler ran
\* (sendMessage changes neither the directory nor a transport state)
OpenConnections(id) ==
    IF Has(pre.users, id)
    THEN {c \in Range(pre.users[id].connections) : readyState[c] = "OPEN"}
    ELSE {}

\* the last handler appended exactly one packet to the queue of id and left
\* every other queue alone
AppendedOne(id) ==
    /\ Has(messageQueue, id)
    /\ Len(messageQueue[id]) = Len(QueueOf(pre.messageQueue, id)) + 1
    /\ SubSeq(messageQueue[id], 1, Len(messageQueue[id]) - 1) = QueueOf(pre.messageQueue, id)
    /\ messageQueue[id][Len(messageQueue[id])].type = "newMessage"
    /\ \A other \in Ids \ {id} :
          /\ Has(messageQueue, other) <=> Has(pre.messageQueue, other)
          /\ QueueOf(messageQueue, other) = QueueOf(pre.messageQueue, other)

\* C1: a valid sendMessage whose recipient has no open connection (unknown id,
\* empty connection set, or a set holding only handles that are not open)
\* appends exactly one packet to the end of the recipient's queue and changes
\* no other queue.
C1_SendWithoutOpenConnectionEnqueues ==
    (ValidSend /\ OpenConnections(last.msg.to) = {}) => AppendedOne(last.msg.to)

\* C2: a valid sendMessage whose recipient has N >= 1 open connections hands
\* exactly one newMessage packet to each of them and none to any other
\* connection, all packets carry the same id, and no queue changes.
C2_FanOutToEveryOpenConnection ==
    (ValidSend /\ OpenConnections(last.msg.to) # {}) =>
        /\ \A c \in Conns :
              NewMessagesTo(c) = IF c \in OpenConnections(last.msg.to) THEN 1 ELSE 0
        /\ Len(FramesOfType("newMessage")) = Cardinality(OpenConnections(last.msg.to))
        /\ \A i, j \in 1..Len(FramesOfType("newMessage")) :
              FramesOfType("newMessage")[i].frame.id = FramesOfType("newMessage")[j].frame.id
        /\ messageQueue = pre.messageQueue

\* a send from one of the recipient's two open connections
C2_Witness ==
    /\ ValidSend
    /\ Cardinality(OpenConnections(last.msg.to)) = 2
    /\ Len(FramesOfType("newMessage")) = 2

\* C3: every valid sendMessage writes exactly one messageSent frame, to the
\* sender: 'delivered' exactly when the packet went to an open connection of
\* the recipient, 'queued' exactly when it was appended to the recipient's
\* queue, with the id of that packet.
C3_EverySendIsAnswered ==
    ValidSend =>
        /\ Len(FramesOfType("messageSent")) = 1
        /\ FramesOfType("messageSent")[1].conn = last.conn
        /\ LET answer == FramesOfType("messageSent")[1].frame
               handed == FramesOfType("newMessage")
           IN /\ answer.status = "delivered" <=> handed # <<>>
              /\ answer.status = "queued" <=> messageQueue # pre.messageQueue
              /\ answer.status \in {"delivered", "queued"}
              /\ handed # <<>> => answer.messageId = handed[1].frame.id
              /\ messageQueue # pre.messageQueue =>
                    answer.messageId =
                        messageQueue[last.msg.to][Len(messageQueue[last.msg.to])].id

\* the username an account gets from its first register: the one given, or
\* 'Anonymous' when the message gave none
UsernameOf(message) ==
    IF Given(message.username) THEN message.username ELSE "Anonymous"

\* C4: the publicKey and username stored for an id, and returned by
\* getPublicKey, are those of the first accepted register of that id; a later
\* register of the id changes only the account's connection set.
C4_FirstRegisterFixesKeyAndName ==
    /\ DOMAIN users = DOMAIN firstReg
    /\ \A id \in DOMAIN users :
          /\ users[id].publicKey = firstReg[id].publicKey
          /\ users[id].username = UsernameOf(firstReg[id])
    /\ (last.op = "getPublicKey" /\ Has(firstReg, last.msg.accountId)) =>
          /\ Len(last.sent) = 1
          /\ last.sent[1].frame.type = "publicKey"
          /\ last.sent[1].frame.publicKey = firstReg[last.msg.accountId].publicKey
          /\ last.sent[1].frame.username = UsernameOf(firstReg[last.msg.accountId])
    /\ (ValidRegister /\ Has(pre.users, last.msg.accountId)) =>
          users = [pre.users EXCEPT ![last.msg.accountId].connections =
                                        users[last.msg.accountId].connections]

\* a second register of an id, with another key and another username
C4_Witness ==
    /\ ValidRegister
    /\ Has(pre.users, last.msg.accountId)
    /\ last.msg.publicKey # users[last.msg.accountId].publicKey
    /\ UsernameOf(last.msg) # users[last.msg.accountId].username

\* the packets a register wrote are the queue it found, in queue order, all
\* written to the registering connection, and the queue is gone
FlushedInOrder ==
    (ValidRegister /\ Has(pre.messageQueue, last.msg.accountId)) =>
        /\ Len(FramesOfType("newMessage")) = Len(pre.messageQueue[last.msg.accountId])
        /\ \A i \in 1..Len(FramesOfType("newMessage")) :
              /\ FramesOfType("newMessage")[i].conn = last.conn
              /\ FramesOfType("newMessage")[i].frame = pre.messageQueue[last.msg.accountId][i]
        /\ ~Has(messageQueue, last.msg.accountId)

\* a register of an id that directly follows a register of the same id writes
\* no newMessage frame
SecondRegisterIsSilent ==
    (/\ ValidRegister
     /\ last'.op = "register" /\ Complete(last'.msg, RegisterFields)
     /\ last'.msg.accountId = last.msg.accountId) =>
        SelectSeq(last'.sent, LAMBDA f : f.frame.type = "newMessage") = <<>>

\* C5: a register of X sends every queued message of X to the registering
\* connection once, in the order enqueued, and leaves X without a queue; a
\* register of X right after it delivers nothing.
C5_FlushOnRegister ==
    []FlushedInOrder /\ [][SecondRegisterIsSilent]_vars

\* a register that flushed two queued messages
C5_Witness ==
    /\ ValidRegister
    /\ Has(pre.messageQueue, last.msg.accountId)
    /\ Len(pre.messageQueue[last.msg.accountId]) = 2
    /\ Len(FramesOfType("newMessage")) = 2

\* the accounts whose connection set holds handle c
OwnersOf(c) == {id \in DOMAIN users : c \in Range(users[id].connections)}

\* C6: every connection handle is in at most one account's connection set.
C6_HandleHasOneOwner ==
    \A c \in Conns : Cardinality(OwnersOf(c)) <= 1

\* C7: once the close event of a connection has been processed, the handle
\* is in no account's connection set.
C7_ClosedHandleIsRemoved ==
    \A c \in Conns : readyState[c] = "CLOSED" => OwnersOf(c) = {}

\* the value of the closure variable names an account
Names(a) == Given(a) /\ a # Null

\* two values of the closure variable name the same account, or both none
SameAccount(a, b) == IF Names(a) THEN a = b ELSE ~Names(b)

\* C8: the id the close handler uses is the accountId of the latest accepted
\* register on the connection; a register that fails validation does not
\* change the id bound to the connection.
C8_CloseUsesLatestAcceptedRegister ==
    /\ last.op = "close" =>
          SameAccount(bound[last.conn], currentAccountId[last.conn])
    /\ (last.op = "register" /\ ~Complete(last.msg, RegisterFields)) =>
          SameAccount(pre.currentAccountId[last.conn], currentAccountId[last.conn])

\* the last handler rejected its message
Rejected ==
    \/ last.op = "register" /\ ~Complete(last.msg, RegisterFields)
    \/ last.op = "sendMessage" /\ ~Complete(last.msg, SendFields)

\* C9: a register or sendMessage that lacks a required field writes exactly
\* one error frame, to its sender, and leaves the directory and the queues as
\* they were.
C9_RejectedMessageChangesNothing ==
    Rejected =>
        /\ Len(last.sent) = 1
        /\ last.sent[1].conn = last.conn
        /\ last.sent[1].frame.type = "error"
        /\ users = pre.users
        /\ messageQueue = pre.messageQueue

\* a register without publicKey, for an id that has queued messages
C9_Witness ==
    /\ last.op = "register"
    /\ ~Complete(last.msg, RegisterFields)
    /\ Has(messageQueue, last.msg.accountId)
    /\ ~Has(users, last.msg.accountId)

\* 7 days, in milliseconds
RetentionWindow == 604800000

\* the messages of a queue that a sweep at time t retains, oldest first
RECURSIVE Retained(_, _)
Retained(queue, t) ==
    IF queue = <<>> THEN <<>>
    ELSE IF t - Head(queue).timestamp < RetentionWindow
         THEN <<Head(queue)>> \o Retained(Tail(queue), t)
         ELSE Retained(Tail(queue), t)

\* C10: after a sweep at time now every queue is the subsequence, in the
\* original order, of its messages younger than the retention window, and an
\* account with no such message has no key.
C10_SweepKeepsYoungMessages ==
    last.op = "cleanup" =>
        \A id \in Ids :
            IF Retained(QueueOf(pre.messageQueue, id), now) = <<>>
            THEN ~Has(messageQueue, id)
            ELSE Has(messageQueue, id)
                 /\ messageQueue[id] = Retained(pre.messageQueue[id], now)

\* a sweep that removed the older of two messages and kept the younger
C10_Witness ==
    /\ last.op = "cleanup"
    /\ \E id \in DOMAIN messageQueue :
          /\ Len(pre.messageQueue[id]) = 2
          /\ messageQueue[id] = <<pre.messageQueue[id][2]>>

\* C11: a sweep changes only queue contents: the set of accounts, every
\* account's publicKey, username, registeredAt and connection set stay as
\* they were, and no frame is written.
C11_SweepTouchesOnlyQueues ==
    last.op = "cleanup" =>
        /\ DOMAIN users = DOMAIN pre.users
        /\ \A id \in DOMAIN users :
              /\ users[id].publicKey = pre.users[id].publicKey
              /\ users[id].username = pre.users[id].username
              /\ users[id].registeredAt = pre.users[id].registeredAt
              /\ users[id].connections = pre.users[id].connections
        /\ last.sent = <<>>

\* a sweep that removed a message while an account holds a connection
C11_Witness ==
    /\ last.op = "cleanup"
    /\ messageQueue # pre.messageQueue
    /\ \E id \in DOMAIN users : users[id].connections # <<>>

\* C12: a frame that cannot be parsed gets exactly one error frame, written
\* to its sender, changes neither the directory nor a queue, and leaves the
\* connection open: the transport state of no handle changes.
C12_UnparsableFrameGetsOneError ==
    last.op = "parseError" =>
        /\ Len(last.sent) = 1
        /\ last.sent[1].conn = last.conn
        /\ last.sent[1].frame.type = "error"
        /\ users = pre.users
        /\ messageQueue = pre.messageQueue
        /\ readyState = pre.readyState

\* an unparsable frame on an open, registered connection while a message is
\* queued
C12_Witness ==
    /\ last.op = "parseError"
    /\ last.msg = Malformed
    /\ readyState[last.conn] = "OPEN"
    /\ OwnersOf(last.conn) # {}
    /\ messageQueue # <<>>

\* C13: ping, getPublicKey and a message of an unrecognized type change
\* neither the directory nor a queue; ping writes exactly one pong to its
\* sender, getPublicKey for an id no register was accepted for writes exactly
\* one error frame, an unrecognized type writes nothing.
C13_ProbesChangeNothing ==
    /\ last.op \in {"ping", "getPublicKey", "unknown"} =>
          users = pre.users /\ messageQueue = pre.messageQueue
    /\ last.op = "ping" =>
          last.sent = <<Frame(last.conn, [type |-> "pong"])>>
    /\ (last.op = "getPublicKey" /\ ~Has(firstReg, last.msg.accountId)) =>
          /\ Len(last.sent) = 1
          /\ last.sent[1].conn = last.conn
          /\ last.sent[1].frame.type = "error"
    /\ last.op = "unknown" => last.sent = <<>>

\* a getPublicKey for an id that has a queue but no account
C13_Witness ==
    /\ last.op = "getPublicKey"
    /\ ~Has(firstReg, last.msg.accountId)
    /\ Has(messageQueue, last.msg.accountId)

IsPrefix(a, b) == Len(a) <= Len(b) /\ SubSeq(b, 1, Len(a)) = a

\* the messages of a that are also in b, in the order of a
Common(a, b) == SelectSeq(a, LAMBDA m : m \in Range(b))

\* the ids of the packets queued anywhere, and the number of queue positions
QueuedIds(map) == UNION {{map[id][i].id : i \in 1..Len(map[id])} : id \in DOMAIN map}
QueuedCount(map) ==
    Cardinality({<<id, i>> \in Ids \X (1..MaxEvents) : Has(map, id) /\ i <= Len(map[id])})

\* C14: a queued message leaves its queue only when a register of its
\* recipient is accepted, which sends it to the registering connection, or
\* when a sweep finds its age at least the retention window; no other event
\* removes, reorders or moves a queued message.
C14_MessagesLeaveOnlyByFlushOrSweep ==
    /\ \A id \in Ids :
          LET before == QueueOf(pre.messageQueue, id)
              after == QueueOf(messageQueue, id)
          IN IF ValidRegister /\ last.msg.accountId = id
             THEN \A m \in Range(before) \ Range(after) :
                     Frame(last.conn, m) \in Range(last.sent)
             ELSE IF last.op = "cleanup"
             THEN /\ after = Common(before, after)
                  /\ \A m \in Range(before) \ Range(after) :
                        now - m.timestamp >= RetentionWindow
             ELSE IsPrefix(before, after)
    /\ QueuedCount(messageQueue) = Cardinality(QueuedIds(messageQueue))

\* a register of one id that left the two queued messages of another id alone
C14_Witness ==
    /\ ValidRegister
    /\ \E id \in Ids \ {last.msg.accountId} :
          /\ Len(QueueOf(pre.messageQueue, id)) = 2
          /\ QueueOf(messageQueue, id) = pre.messageQueue[id]

\* the registered frame the last handler wrote
RegisteredFrame == FramesOfType("registered")[1].frame

\* C15: accounts are never deleted: an id that a register was accepted for
\* stays in the directory through every later event, and the onlineUsers of
\* each accepted register is the number of distinct ids accepted so far, so
\* it never decreases.
C15_AccountsAreNeverDeleted ==
    /\ DOMAIN pre.users \subseteq DOMAIN users
    /\ DOMAIN firstReg \subseteq DOMAIN users
    /\ ValidRegister =>
          /\ Len(FramesOfType("registered")) = 1
          /\ RegisteredFrame.onlineUsers = Cardinality(DOMAIN firstReg)
          /\ RegisteredFrame.onlineUsers >= Cardinality(DOMAIN pre.users)

\* the second id registers after the only connection of the first has closed
C15_Witness ==
    /\ ValidRegister
    /\ RegisteredFrame.onlineUsers = 2
    /\ \E id \in DOMAIN users : users[id].connections = <<>>

\* C16: no id is in the queue map with an empty sequence.
C16_NoEmptyQueueIsStored ==
    \A id \in DOMAIN messageQueue : messageQueue[id] # <<>>

\* a sweep that removed the last message of a queue, and with it the key
C16_Witness ==
    /\ last.op = "cleanup"
    /\ DOMAIN pre.messageQueue \ DOMAIN messageQueue # {}

\* the messages the last handler removed from the queue of id
Removed(id) == Range(QueueOf(pre.messageQueue, id)) \ Range(QueueOf(messageQueue, id))

\* C17 as stated: every message a sweep removes is strictly older than the
\* retention window, so a message whose age equals the window is retained.
C17_SweepRemovesOnlyStrictlyOlder ==
    last.op = "cleanup" =>
        \A id \in Ids : \A m \in Removed(id) : now - m.timestamp > RetentionWindow

\* C17, amended: every message a sweep removes has an age of at least the
\* retention window, and a message whose age equals the window is removed.
C17_SweepRemovesFromWindowOn ==
    last.op = "cleanup" =>
        \A id \in Ids :
            /\ \A m \in Removed(id) : now - m.timestamp >= RetentionWindow
            /\ \A m \in Range(QueueOf(pre.messageQueue, id)) :
                  now - m.timestamp = RetentionWindow => m \in Removed(id)

\* a sweep that removed a message exactly as old as the window
C17_Witness ==
    /\ last.op = "cleanup"
    /\ \E id \in Ids : \E m \in Removed(id) : now - m.timestamp = RetentionWindow

\* C19: an id with a non-empty queue is unregistered or has an empty
\* connection set.
C19_QueuedImpliesNoConnection ==
    \A id \in DOMAIN messageQueue :
        messageQueue[id] # <<>> => (~Has(users, id) \/ users[id].connections = <<>>)

\* a message queued for a registered account whose connection has closed
C19_Witness ==
    /\ ValidSend
    /\ Has(users, last.msg.to)
    /\ users[last.msg.to].connections = <<>>
    /\ Has(messageQueue, last.msg.to)

\* C20: no newMessage frame is written to a connection that is not open:
\* fan-out writes only to the open handles of the recipient's set, and a
\* flush writes only to the connection the register arrived on.
C20_NewMessageOnlyToOpenConnections ==
    \A i \in 1..Len(FramesOfType("newMessage")) :
        LET f == FramesOfType("newMessage")[i]
        IN /\ readyState[f.conn] = "OPEN"
           /\ last.op = "register" => f.conn = last.conn
           /\ last.op = "sendMessage" => f.conn \in Range(users[last.msg.to].connections)
           /\ last.op \in {"register", "sendMessage"}

\* packet m is in some offline queue
IsQueued(m) == m \in QueuedIds(messageQueue)

\* C18: with the clock advancing and the sweep running, every message that
\* enters an offline queue eventually leaves it, by flush or by eviction.
C18_QueuedMessagesEventuallyLeave ==
    \A m \in 1..MaxSends : IsQueued(m) ~> ~IsQueued(m)

\* a sweep that evicted a message no register had flushed
C18_Witness ==
    /\ last.op = "cleanup"
    /\ \E id \in Ids : Removed(id) # {} /\ ~Has(users, id)
====
